---- MODULE Spec2Model ----
(***************************************************************************)
(* Model of the mute/unmute plugin.  The repository holds two versions of  *)
(* the plugin:                                                             *)
(*   handler version  src/linglingbizui/plugin.py  (definitions H_...)     *)
(*   chatter version  src/plugin.py                (definitions C_...)     *)
(* Both keep one map stream_id -> expiry timestamp in the plugin storage   *)
(* under the key "muted_streams".  Time is counted in minutes.             *)
(*                                                                         *)
(* Strings are sequences of characters; an alias is one character of the   *)
(* alphabet.  The chatter's AttributeError branch (src/plugin.py:270-302)  *)
(* is taken only by a host whose BaseChatter has no get_config; it reads   *)
(* the configuration cached at load time and is not modelled.              *)
(***************************************************************************)
EXTENDS Integers, Sequences, FiniteSets, TLC

VARIABLES impl, now, cfg, muted, hist, last, tasks

vars == <<impl, now, cfg, muted, hist, last, tasks>>

(***************************************************************************)
(* Bounds of the model.                                                    *)
(***************************************************************************)
MaxTime == 1

(***************************************************************************)
(* Program constants.                                                      *)
(***************************************************************************)
None == -1                     \* _parse_duration's "return None"
Absent == -2                   \* a setting missing from config.toml
DEFAULT_MUTE_MINUTES == 10     \* get_config("defaults.default_mute_minutes", 10)
at_unmute_enabled_val == TRUE  \* MuteControlChatter.__init__, never reassigned

ALIAS_MUTE == "lingling_bizui"      \* default of aliases.mute
ALIAS_UNMUTE == "lingling_zhangzui" \* default of aliases.unmute
mute_aliases == << <<ALIAS_MUTE>> >>
unmute_aliases == << <<ALIAS_UNMUTE>> >>

Streams == {"s1", "s2"}
Senders == {"master", "other"}
Impls == {"handler", "chatter"}

(***************************************************************************)
(* The storage map: a function from the muted stream ids to expiry times.  *)
(***************************************************************************)
EmptyMap == [x \in {} |-> 0]

Put(map, s, v) == [x \in (DOMAIN map) \cup {s} |-> IF x = s THEN v ELSE map[x]]

Del(map, s) == [x \in (DOMAIN map) \ {s} |-> map[x]]

(***************************************************************************)
(* String helpers: str.strip, str.startswith, slicing, str.lower.          *)
(***************************************************************************)
IsSpace(c) == c = " "

IsDigit(c) == c \in {"0", "1", "2", "3", "4", "5", "6", "7", "8", "9"}

DigitVal(c) ==
  CASE c = "0" -> 0 [] c = "1" -> 1 [] c = "2" -> 2 [] c = "3" -> 3
    [] c = "4" -> 4 [] c = "5" -> 5 [] c = "6" -> 6 [] c = "7" -> 7
    [] c = "8" -> 8 [] c = "9" -> 9

Lower(c) ==
  CASE c = "M" -> "m" [] c = "I" -> "i" [] c = "N" -> "n" [] c = "H" -> "h"
    [] OTHER -> c

LowerStr(s) == [i \in 1..Len(s) |-> Lower(s[i])]

Min(S) == CHOOSE x \in S : \A y \in S : x <= y

Max(S) == CHOOSE x \in S : \A y \in S : x >= y

Strip(s) ==
  LET keep == {i \in 1..Len(s) : ~IsSpace(s[i])}
  IN  IF keep = {} THEN <<>> ELSE SubSeq(s, Min(keep), Max(keep))

StartsWith(s, p) == Len(p) <= Len(s) /\ SubSeq(s, 1, Len(p)) = p

DropPrefix(s, n) == SubSeq(s, n + 1, Len(s))

(***************************************************************************)
(* re.search(r'(\d+)\s*(?:u1|u2|...)', s) and int(group(1)).               *)
(* \d+ and \s* are greedy; a unit starts with neither a digit nor a space, *)
(* so a match that begins at i takes the whole digit run from i, then the  *)
(* whole run of spaces, then a unit.  search returns the leftmost match.   *)
(***************************************************************************)
DigitRunEnd(s, i) == Max({j \in i..Len(s) : \A k \in i..j : IsDigit(s[k])})

SkipSpaces(s, k) == Min({j \in k..(Len(s) + 1) : j = Len(s) + 1 \/ ~IsSpace(s[j])})

HasPrefixAt(s, k, u) ==
  /\ k + Len(u) - 1 <= Len(s)
  /\ \A n \in 1..Len(u) : s[k + n - 1] = u[n]

RECURSIVE IntOf(_, _, _)
IntOf(s, i, j) == IF j < i THEN 0 ELSE 10 * IntOf(s, i, j - 1) + DigitVal(s[j])

MatchesAt(s, i, units) ==
  /\ IsDigit(s[i])
  /\ \E u \in units : HasPrefixAt(s, SkipSpaces(s, DigitRunEnd(s, i) + 1), u)

re_search(s, units) ==
  LET starts == {i \in 1..Len(s) : MatchesAt(s, i, units)}
  IN  IF starts = {} THEN None
      ELSE IntOf(s, Min(starts), DigitRunEnd(s, Min(starts)))

MinuteUnits == {<<"fen", "zhong">>, <<"m", "i", "n">>, <<"m">>}
HourUnits == {<<"xiao", "shi">>, <<"h">>}
DayUnits == {<<"tian">>}

\* a parser that forgets the minutes of an hour in the day conversion
parse_duration_day24(duration_str) ==
  LET s == LowerStr(duration_str)
      min_match == re_search(s, MinuteUnits)
      hour_match == re_search(s, HourUnits)
      day_match == re_search(s, DayUnits)
  IN  IF min_match /= None THEN min_match
      ELSE IF hour_match /= None THEN hour_match * 60
      ELSE IF day_match /= None THEN day_match * 24
      ELSE None

\* a parser that tries the hour pattern before the minute pattern
parse_duration_hour_first(duration_str) ==
  LET s == LowerStr(duration_str)
      min_match == re_search(s, MinuteUnits)
      hour_match == re_search(s, HourUnits)
      day_match == re_search(s, DayUnits)
  IN  IF hour_match /= None THEN hour_match * 60
      ELSE IF min_match /= None THEN min_match
      ELSE IF day_match /= None THEN day_match * 24 * 60
      ELSE None

parse_duration(duration_str) ==
  LET s == LowerStr(duration_str)
      min_match == re_search(s, MinuteUnits)
      hour_match == re_search(s, HourUnits)
      day_match == re_search(s, DayUnits)
  IN  IF min_match /= None THEN min_match
      ELSE IF hour_match /= None THEN hour_match * 60
      ELSE IF day_match /= None THEN day_match * 24 * 60
      ELSE None

(***************************************************************************)
(* Configuration (config.toml read through get_config with defaults).      *)
(***************************************************************************)
\* the values of defaults.default_mute_minutes
DefaultMinuteSettings == {Absent, 1}

Configs ==
  [plugin_enabled : BOOLEAN, mute_enabled : BOOLEAN,
   at_unmute_enabled : BOOLEAN, default_mute_minutes : DefaultMinuteSettings]

\* config.toml without any setting: get_config returns every default
DefaultConfig ==
  [plugin_enabled |-> TRUE, mute_enabled |-> TRUE,
   at_unmute_enabled |-> TRUE, default_mute_minutes |-> Absent]

\* a default that ignores config.toml
default_mute_minutes_hardcoded(c) == DEFAULT_MUTE_MINUTES

default_mute_minutes(c) ==
  IF c.default_mute_minutes = Absent THEN DEFAULT_MUTE_MINUTES
  ELSE c.default_mute_minutes

(***************************************************************************)
(* Result of running a piece of the plugin on a storage map:               *)
(*   map          the storage map afterwards                               *)
(*   sent         the texts sent to the stream, in order                   *)
(*   request      "mute" / "unmute" when a command body ran, else "none"   *)
(*   success      the command body's success value                         *)
(*   wrote        a mute record was written, with duration dur             *)
(*   unmuted      an explicit unmute removed the record                    *)
(*   at_unmuted   the @-mention branch removed the record                  *)
(*   expired      the status check removed an expired record               *)
(*   checked      the status check looked the stream up                    *)
(*   intercepted  intercepted=True / block_follow_up_processing=True       *)
(*   reply        reply generation was triggered                           *)
(*   gen          how the reply generation went, "none" when not triggered *)
(*   raised       an exception left the operation                          *)
(***************************************************************************)
NoResult(map) ==
  [map |-> map, sent |-> <<>>, request |-> "none", success |-> FALSE,
   wrote |-> FALSE, dur |-> None, unmuted |-> FALSE, at_unmuted |-> FALSE,
   expired |-> FALSE, checked |-> FALSE, intercepted |-> FALSE,
   reply |-> FALSE, gen |-> "none", raised |-> FALSE]

Refuse(map, req, text) ==
  [NoResult(map) EXCEPT !.request = req, !.sent = <<text>>]

\* r1 then r2, r2 having started from r1.map
Then(r1, r2) ==
  [map |-> r2.map, sent |-> r1.sent \o r2.sent,
   request |-> IF r2.request /= "none" THEN r2.request ELSE r1.request,
   success |-> IF r2.request /= "none" THEN r2.success ELSE r1.success,
   wrote |-> r1.wrote \/ r2.wrote,
   dur |-> IF r2.wrote THEN r2.dur ELSE r1.dur,
   unmuted |-> r1.unmuted \/ r2.unmuted,
   at_unmuted |-> r1.at_unmuted \/ r2.at_unmuted,
   expired |-> r1.expired \/ r2.expired,
   checked |-> r1.checked \/ r2.checked,
   intercepted |-> r1.intercepted \/ r2.intercepted,
   reply |-> r1.reply \/ r2.reply,
   gen |-> IF r2.reply THEN r2.gen ELSE r1.gen,
   raised |-> r1.raised \/ r2.raised]

\* The outcomes of the reply generation that follows an unmute: a reply was
\* generated, get_replyer returned nothing, generate_reply reported failure,
\* or an exception was raised.
ReplyOutcomes == {"replied", "no_replyer", "failed", "exception"}

\* a reply trigger without the try/except: the exception leaves the operation
\* before it returns its result
generate_reply_unguarded(r, g) ==
  IF g = "exception"
  THEN [r EXCEPT !.reply = TRUE, !.gen = g, !.raised = TRUE, !.success = FALSE]
  ELSE [r EXCEPT !.reply = TRUE, !.gen = g]

\* try: get_replyer, generate_reply; except Exception: print.  r is the
\* result so far, g the outcome of the generation
generate_reply(r, g) == [r EXCEPT !.reply = TRUE, !.gen = g]

\* index of the first alias of the list that is a prefix of content, 0 if none
FirstAlias(content, aliases) ==
  LET hits == {i \in 1..Len(aliases) : StartsWith(content, aliases[i])}
  IN  IF hits = {} THEN 0 ELSE Min(hits)

(***************************************************************************)
(* Handler version, src/linglingbizui/plugin.py.                           *)
(* map: storage map, c: configuration, t: current time, s: stream id.      *)
(***************************************************************************)
\* args: the raw argument string; <<>> stands for "no args" (None or empty).
\* First a variant for comparison: a mute that extends the expiry of an existing record instead of
\* overwriting it
H_MuteMaiCommand_execute_extend(map, c, t, s, args) ==
  IF ~c.plugin_enabled THEN Refuse(map, "mute", "plugin_disabled")
  ELSE IF ~c.mute_enabled THEN Refuse(map, "mute", "mute_disabled")
  ELSE
    LET has_args == args /= <<>>
        duration_minutes == IF has_args THEN parse_duration(args)
                            ELSE default_mute_minutes(c)
        from == IF s \in DOMAIN map THEN map[s] ELSE t
    IN  IF has_args /\ duration_minutes = None
        THEN Refuse(map, "mute", "parse_error")
        ELSE [NoResult(map) EXCEPT
                !.map = Put(map, s, from + duration_minutes),
                !.sent = <<"mute_start">>,
                !.request = "mute", !.success = TRUE,
                !.wrote = TRUE, !.dur = duration_minutes]

\* a mute that falls back to the default duration when the argument cannot
\* be parsed
H_MuteMaiCommand_execute_fallback(map, c, t, s, args) ==
  IF ~c.plugin_enabled THEN Refuse(map, "mute", "plugin_disabled")
  ELSE IF ~c.mute_enabled THEN Refuse(map, "mute", "mute_disabled")
  ELSE
    LET has_args == args /= <<>>
        parsed == IF has_args THEN parse_duration(args) ELSE None
        duration_minutes == IF parsed /= None THEN parsed
                            ELSE default_mute_minutes(c)
    IN  [NoResult(map) EXCEPT
           !.map = Put(map, s, t + duration_minutes),
           !.sent = <<"mute_start">>,
           !.request = "mute", !.success = TRUE,
           !.wrote = TRUE, !.dur = duration_minutes]

H_MuteMaiCommand_execute(map, c, t, s, args) ==
  IF ~c.plugin_enabled THEN Refuse(map, "mute", "plugin_disabled")
  ELSE IF ~c.mute_enabled THEN Refuse(map, "mute", "mute_disabled")
  ELSE
    LET has_args == Strip(args) /= <<>>
        duration_minutes ==
          IF has_args THEN parse_duration(Strip(args)) ELSE default_mute_minutes(c)
    IN  IF has_args /\ duration_minutes = None
        THEN Refuse(map, "mute", "parse_error")
        ELSE [NoResult(map) EXCEPT
                !.map = Put(map, s, t + duration_minutes),
                !.sent = <<"mute_start">>,
                !.request = "mute", !.success = TRUE,
                !.wrote = TRUE, !.dur = duration_minutes]

\* an unmute that announces the unmute without writing the map back
H_UnmuteMaiCommand_execute_keep(map, c, t, s, g) ==
  IF ~c.plugin_enabled THEN Refuse(map, "unmute", "plugin_disabled")
  ELSE IF ~c.mute_enabled THEN Refuse(map, "unmute", "mute_disabled")
  ELSE IF s \in DOMAIN map
    THEN generate_reply([NoResult(map) EXCEPT
            !.sent = <<"unmute_start">>,
            !.request = "unmute", !.success = TRUE,
            !.unmuted = TRUE], g)
    ELSE [NoResult(map) EXCEPT !.request = "unmute", !.success = TRUE]

H_UnmuteMaiCommand_execute(map, c, t, s, g) ==
  IF ~c.plugin_enabled THEN Refuse(map, "unmute", "plugin_disabled")
  ELSE IF ~c.mute_enabled THEN Refuse(map, "unmute", "mute_disabled")
  ELSE IF s \in DOMAIN map
    THEN generate_reply([NoResult(map) EXCEPT
            !.map = Del(map, s), !.sent = <<"unmute_start">>,
            !.request = "unmute", !.success = TRUE,
            !.unmuted = TRUE], g)
    ELSE [NoResult(map) EXCEPT !.request = "unmute", !.success = TRUE]

\* m: the message [stream, sender, text, at_bot]
H_AliasHandler_handle(map, c, t, m, g) ==
  IF ~c.plugin_enabled \/ ~c.mute_enabled THEN NoResult(map)
  ELSE
    LET message_content == Strip(m.text)
        im == FirstAlias(message_content, mute_aliases)
        iu == FirstAlias(message_content, unmute_aliases)
    IN  IF im /= 0
        THEN H_MuteMaiCommand_execute(map, c, t, m.stream,
               Strip(DropPrefix(message_content, Len(mute_aliases[im]))))
        ELSE IF iu /= 0
        THEN H_UnmuteMaiCommand_execute(map, c, t, m.stream, g)
        ELSE NoResult(map)

\* an @-mention handler that answers without deleting the record
H_AtUnmuteHandler_handle_keep(map, c, t, m, g) ==
  IF ~c.plugin_enabled \/ ~c.mute_enabled \/ ~c.at_unmute_enabled
  THEN NoResult(map)
  ELSE IF m.stream \in DOMAIN map /\ t < map[m.stream] /\ m.at_bot
  THEN generate_reply([NoResult(map) EXCEPT !.sent = <<"at_unmute">>], g)
  ELSE NoResult(map)

H_AtUnmuteHandler_handle(map, c, t, m, g) ==
  IF ~c.plugin_enabled \/ ~c.mute_enabled \/ ~c.at_unmute_enabled
  THEN NoResult(map)
  ELSE IF m.stream \in DOMAIN map /\ t < map[m.stream] /\ m.at_bot
  THEN generate_reply([NoResult(map) EXCEPT
          !.map = Del(map, m.stream), !.sent = <<"at_unmute">>,
          !.at_unmuted = TRUE], g)
  ELSE NoResult(map)

\* a status check that still counts the expiry instant as muted
H_MuteHandler_handle_inclusive(map, c, t, m) ==
  IF ~c.plugin_enabled \/ ~c.mute_enabled THEN NoResult(map)
  ELSE IF m.stream \in DOMAIN map
  THEN IF t <= map[m.stream]
       THEN [NoResult(map) EXCEPT !.checked = TRUE, !.intercepted = TRUE]
       ELSE [NoResult(map) EXCEPT
               !.map = Del(map, m.stream), !.checked = TRUE, !.expired = TRUE]
  ELSE [NoResult(map) EXCEPT !.checked = TRUE]

\* a status check that leaves an expired record in the map
H_MuteHandler_handle_no_cleanup(map, c, t, m) ==
  IF ~c.plugin_enabled \/ ~c.mute_enabled THEN NoResult(map)
  ELSE IF m.stream \in DOMAIN map
  THEN IF t < map[m.stream]
       THEN [NoResult(map) EXCEPT !.checked = TRUE, !.intercepted = TRUE]
       ELSE [NoResult(map) EXCEPT !.checked = TRUE]
  ELSE [NoResult(map) EXCEPT !.checked = TRUE]

H_MuteHandler_handle(map, c, t, m) ==
  IF ~c.plugin_enabled \/ ~c.mute_enabled THEN NoResult(map)
  ELSE IF m.stream \in DOMAIN map
  THEN IF t < map[m.stream]
       THEN [NoResult(map) EXCEPT !.checked = TRUE, !.intercepted = TRUE]
       ELSE [NoResult(map) EXCEPT
               !.map = Del(map, m.stream), !.checked = TRUE, !.expired = TRUE]
  ELSE [NoResult(map) EXCEPT !.checked = TRUE]

\* a host that runs the mute-status check before the two unmute checks
H_handlers_status_first(map, c, t, m, g) ==
  LET r1 == H_MuteHandler_handle(map, c, t, m)
      r2 == Then(r1, H_AliasHandler_handle(r1.map, c, t, m, g))
  IN  Then(r2, H_AtUnmuteHandler_handle(r2.map, c, t, m, g))

\* the host runs the handlers in their registration order
H_handlers(map, c, t, m, g) ==
  LET r1 == H_AliasHandler_handle(map, c, t, m, g)
      r2 == Then(r1, H_AtUnmuteHandler_handle(r1.map, c, t, m, g))
  IN  Then(r2, H_MuteHandler_handle(r2.map, c, t, m))

\* a load that keeps the persisted records
on_plugin_loaded_keep(map) == map

on_plugin_loaded(map) == IF map /= EmptyMap THEN EmptyMap ELSE map

(***************************************************************************)
(* Chatter version, src/plugin.py.  The commands take no duration.         *)
(***************************************************************************)
C_MuteMaiCommand_execute(map, c, t, s) ==
  IF ~c.plugin_enabled THEN Refuse(map, "mute", "plugin_disabled")
  ELSE IF ~c.mute_enabled THEN Refuse(map, "mute", "mute_disabled")
  ELSE [NoResult(map) EXCEPT
          !.map = Put(map, s, t + default_mute_minutes(c)),
          !.sent = <<"mute_start">>,
          !.request = "mute", !.success = TRUE,
          !.wrote = TRUE, !.dur = default_mute_minutes(c)]

C_UnmuteMaiCommand_execute(map, c, t, s, g) ==
  IF ~c.plugin_enabled THEN Refuse(map, "unmute", "plugin_disabled")
  ELSE IF ~c.mute_enabled THEN Refuse(map, "unmute", "mute_disabled")
  ELSE IF s \in DOMAIN map
    THEN generate_reply([NoResult(map) EXCEPT
            !.map = Del(map, s), !.sent = <<"unmute_start">>,
            !.request = "unmute", !.success = TRUE,
            !.unmuted = TRUE], g)
    ELSE [NoResult(map) EXCEPT
            !.sent = <<"not_muted">>, !.request = "unmute", !.success = FALSE]

\* step 1 of execute: the two alias loops (mute aliases on the stripped
\* content, unmute aliases on the content as it is)
C_execute_mute_logic_direct_from_chatter(map, c, t, s) ==
  IF ~c.plugin_enabled THEN Refuse(map, "mute", "plugin_disabled")
  ELSE IF ~c.mute_enabled THEN Refuse(map, "mute", "mute_disabled")
  ELSE [NoResult(map) EXCEPT
          !.map = Put(map, s, t + default_mute_minutes(c)),
          !.sent = <<"mute_start">>,
          !.request = "mute", !.success = TRUE,
          !.wrote = TRUE, !.dur = default_mute_minutes(c)]

C_execute_unmute_logic_direct_from_chatter(map, c, t, s, g) ==
  IF ~c.plugin_enabled THEN Refuse(map, "unmute", "plugin_disabled")
  ELSE IF ~c.mute_enabled THEN Refuse(map, "unmute", "mute_disabled")
  ELSE IF s \in DOMAIN map
    THEN generate_reply([NoResult(map) EXCEPT
            !.map = Del(map, s), !.sent = <<"unmute_start">>,
            !.request = "unmute", !.success = TRUE,
            !.unmuted = TRUE], g)
    ELSE [NoResult(map) EXCEPT
            !.sent = <<"not_muted">>, !.request = "unmute", !.success = FALSE]

C_alias_check(map, c, t, m, g) ==
  LET r1 == IF FirstAlias(Strip(m.text), mute_aliases) /= 0
            THEN C_execute_mute_logic_direct_from_chatter(map, c, t, m.stream)
            ELSE NoResult(map)
  IN  IF FirstAlias(m.text, unmute_aliases) /= 0
      THEN Then(r1, C_execute_unmute_logic_direct_from_chatter(r1.map, c, t, m.stream, g))
      ELSE r1

\* step 2 of execute: the @-mention check
C_at_check(map, c, t, m, g) ==
  IF ~at_unmute_enabled_val THEN NoResult(map)
  ELSE IF m.at_bot /\ m.stream \in DOMAIN map /\ t < map[m.stream]
  THEN generate_reply([NoResult(map) EXCEPT
          !.map = Del(map, m.stream), !.sent = <<"at_unmute">>,
          !.at_unmuted = TRUE], g)
  ELSE NoResult(map)

\* a status check that leaves an expired record in the map
C_status_check_no_cleanup(map, c, t, m) ==
  IF m.stream \in DOMAIN map
  THEN IF t < map[m.stream]
       THEN [NoResult(map) EXCEPT !.checked = TRUE, !.intercepted = TRUE]
       ELSE [NoResult(map) EXCEPT !.checked = TRUE]
  ELSE [NoResult(map) EXCEPT !.checked = TRUE]

\* a status check that still blocks at the expiry instant
C_status_check_inclusive(map, c, t, m) ==
  IF m.stream \in DOMAIN map
  THEN IF t <= map[m.stream]
       THEN [NoResult(map) EXCEPT !.checked = TRUE, !.intercepted = TRUE]
       ELSE [NoResult(map) EXCEPT
               !.map = Del(map, m.stream), !.checked = TRUE, !.expired = TRUE]
  ELSE [NoResult(map) EXCEPT !.checked = TRUE]

\* a status check that, finding the stream's record expired, purges the
\* expired records of every stream
C_status_check_purge_all(map, c, t, m) ==
  IF m.stream \in DOMAIN map
  THEN IF t < map[m.stream]
       THEN [NoResult(map) EXCEPT !.checked = TRUE, !.intercepted = TRUE]
       ELSE [NoResult(map) EXCEPT
               !.map = [x \in {y \in DOMAIN map : t < map[y]} |-> map[x]],
               !.checked = TRUE, !.expired = TRUE]
  ELSE [NoResult(map) EXCEPT !.checked = TRUE]

\* step 3 of execute: the mute status check
C_status_check(map, c, t, m) ==
  IF m.stream \in DOMAIN map
  THEN IF t < map[m.stream]
       THEN [NoResult(map) EXCEPT !.checked = TRUE, !.intercepted = TRUE]
       ELSE [NoResult(map) EXCEPT
               !.map = Del(map, m.stream), !.checked = TRUE, !.expired = TRUE]
  ELSE [NoResult(map) EXCEPT !.checked = TRUE]

\* an execute that returns once an alias has been processed, without the
\* mute status check
MuteControlChatter_execute_alias_returns(map, c, t, m, g) ==
  IF m.text = <<>> THEN NoResult(map)
  ELSE
    LET r1 == C_alias_check(map, c, t, m, g)
        r2 == Then(r1, C_at_check(r1.map, c, t, m, g))
    IN  IF r1.request /= "none" THEN r1
        ELSE Then(r2, C_status_check(r2.map, c, t, m))

MuteControlChatter_execute(map, c, t, m, g) ==
  IF m.text = <<>> THEN NoResult(map)
  ELSE
    LET r1 == C_alias_check(map, c, t, m, g)
        r2 == Then(r1, C_at_check(r1.map, c, t, m, g))
    IN  Then(r2, C_status_check(r2.map, c, t, m))

(***************************************************************************)
(* The state machine.                                                      *)
(*   impl   which version of the plugin the host has loaded                *)
(*   now    the clock (time.time(), datetime.now()), in minutes            *)
(*   cfg    the configuration get_config reads                             *)
(*   muted  the storage map under "muted_streams"                          *)
(*   hist   history: per stream, T + D of the last mute request (made at   *)
(*          time T with duration D) that no unmute, @-unmute or plugin     *)
(*          load has undone since, else None                               *)
(*   last   the event being handled: its inputs, the map before it and     *)
(*          its result; Idle between two events                            *)
(*   tasks  per stream, the event of that stream suspended at an await     *)
(*          (only the interleaved specification AsyncSpec uses it)         *)
(* Inputs of the events.                                                   *)
(***************************************************************************)
Texts ==
  { <<>>,                          \* no text content (an image)
    <<"x">>,                       \* ordinary text
    <<ALIAS_MUTE>>,                \* bare mute alias
    <<ALIAS_MUTE, "1", "m">>,      \* mute alias with a duration
    <<ALIAS_MUTE, "x">>,           \* mute alias with text that is no duration
    <<ALIAS_UNMUTE>>,              \* unmute alias
    <<" ", ALIAS_UNMUTE>> }        \* unmute alias after a space

CommandArgs == { <<>>, <<"1", "m">>, <<"0", "m">>, <<"x">> }

Messages == [stream : Streams, sender : Senders, text : Texts, at_bot : BOOLEAN]

NoMessage == [stream |-> "-", sender |-> "-", text |-> <<>>, at_bot |-> FALSE]

Event(op, m, args, pre, r) ==
  [op |-> op, stream |-> m.stream, sender |-> m.sender, text |-> m.text,
   at_bot |-> m.at_bot, args |-> args, pre |-> pre, r |-> r]

\* no event is being handled
Idle == Event("idle", NoMessage, <<>>, EmptyMap, NoResult(EmptyMap))

NoHist == [s \in Streams |-> None]

\* no event is suspended at an await
NoTask == [op |-> "idle", m |-> NoMessage, pc |-> "done", local |-> EmptyMap]

NoTasks == [s \in Streams |-> NoTask]

NextHist(h, s, t, r) ==
  [h EXCEPT ![s] = IF r.unmuted \/ r.at_unmuted THEN None
                   ELSE IF r.wrote THEN t + r.dur
                   ELSE h[s]]

\* the state after the plugin was loaded
Init ==
  /\ impl \in Impls
  /\ now = 0
  /\ cfg \in Configs
  /\ muted = EmptyMap
  /\ hist = NoHist
  /\ last = Idle
  /\ tasks = NoTasks

\* the clock advances by one minute
Tick ==
  /\ last = Idle
  /\ now < MaxTime
  /\ now' = now + 1
  /\ UNCHANGED <<impl, cfg, muted, hist, last, tasks>>

\* config.toml is changed
SetConfig ==
  /\ last = Idle
  /\ \E c \in Configs \ {cfg} : cfg' = c
  /\ UNCHANGED <<impl, now, muted, hist, last, tasks>>

\* the host loads the plugin again (a restart)
PluginLoad ==
  /\ last = Idle
  /\ muted' = on_plugin_loaded(muted)
  /\ hist' = NoHist
  /\ last' = Event("load", NoMessage, <<>>, muted, NoResult(muted'))
  /\ UNCHANGED <<impl, now, cfg, tasks>>

\* the plugin handles one event: r is what its code does on the map
Apply(op, m, args, r) ==
  /\ last = Idle
  /\ muted' = r.map
  /\ hist' = NextHist(hist, m.stream, now, r)
  /\ last' = Event(op, m, args, muted, r)
  /\ UNCHANGED <<impl, now, cfg, tasks>>

Sender(s, u) == [stream |-> s, sender |-> u, text |-> <<>>, at_bot |-> FALSE]

\* the chatter version's commands ignore their arguments
ArgsOf(i) == IF i = "handler" THEN CommandArgs ELSE {<<>>}

\* /mute_mai [duration]
MuteCommand ==
  \E s \in Streams, u \in Senders, a \in ArgsOf(impl) :
    Apply("mute_cmd", Sender(s, u), a,
          IF impl = "handler"
          THEN H_MuteMaiCommand_execute(muted, cfg, now, s, a)
          ELSE C_MuteMaiCommand_execute(muted, cfg, now, s))

\* the event's code, g being the outcome of the reply generation should the
\* event reach it
unmute_command(s, g) ==
  IF impl = "handler"
  THEN H_UnmuteMaiCommand_execute(muted, cfg, now, s, g)
  ELSE C_UnmuteMaiCommand_execute(muted, cfg, now, s, g)

on_message(m, g) ==
  IF impl = "handler"
  THEN H_handlers(muted, cfg, now, m, g)
  ELSE MuteControlChatter_execute(muted, cfg, now, m, g)

\* /unmute_mai
UnmuteCommand ==
  \E s \in Streams, u \in Senders :
    \E g \in ReplyOutcomes :
      Apply("unmute_cmd", Sender(s, u), <<>>, unmute_command(s, g))

\* an incoming message: the three handlers, or the chatter
Message ==
  \E m \in Messages :
    \E g \in ReplyOutcomes :
      Apply("message", m, <<>>, on_message(m, g))

\* the plugin returns the event's result to the host
Return ==
  /\ last /= Idle
  /\ last' = Idle
  /\ UNCHANGED <<impl, now, cfg, muted, hist, tasks>>

Next ==
  \/ Tick
  \/ SetConfig
  \/ PluginLoad
  \/ MuteCommand
  \/ UnmuteCommand
  \/ Message
  \/ Return

Spec == Init /\ [][Next]_vars

(***************************************************************************)
(* The plugin on a host that keeps running: the clock advances up to the   *)
(* horizon MaxTime and every event that was started returns.  Nothing else *)
(* is scheduled: the plugin has no timer and no background task, and which *)
(* events arrive is up to the users.                                       *)
(***************************************************************************)
Fairness ==
  /\ SF_vars(Tick)
  /\ WF_vars(Return)

LiveSpec == Init /\ [][Next]_vars /\ Fairness

(***************************************************************************)
(* Interleaved handling.  Every handler is a coroutine: it runs until an   *)
(* await (a send, the reply generation, the return to the host) and the    *)
(* event loop may then run the coroutine of another event.  An event is    *)
(* handled in stages, a stage being the code from one storage get up to    *)
(* the awaits that follow it:                                              *)
(*   "cmd"     the body of /mute_mai or /unmute_mai                        *)
(*   "alias"   AliasHandler.handle, or step 1 of the chatter's execute     *)
(*   "at"      AtUnmuteHandler.handle, or step 2 of execute                *)
(*   "status"  MuteHandler.handle, or step 3 of execute                    *)
(* tasks[s] is the event of stream s that is suspended: its kind and       *)
(* message, the stage it runs next, and local, the dictionary it holds     *)
(* from its last plugin_storage.get.  The host handles the events of one   *)
(* stream one after the other.                                             *)
(***************************************************************************)
\* plugin_storage.get(STORAGE_KEY_MUTED_STREAMS, {}) at the start of a stage:
\* stored is the content of the storage, local the dictionary the coroutine
\* got before its last await.  First a variant that keeps using the
\* dictionary read before the await.
storage_get_before_await(local, stored) == local

storage_get(local, stored) == stored

\* how send_api.text_to_stream / self.send_text ends
SendOutcomes == {"delivered", "raised"}

\* a stage that sends its text before it writes the map: when the send
\* raises, the stage is left before the storage set
text_to_stream_before_set(pre, r, n) ==
  IF n = "raised"
  THEN [NoResult(pre) EXCEPT !.request = r.request, !.raised = TRUE]
  ELSE r

\* The stage computed r (from the storage content pre) and awaits the send
\* of r.sent after its storage set; no try/except encloses a send, so an
\* exception leaves the coroutine: nothing is delivered, no reply is
\* triggered, no result is returned.  The map stays as the stage wrote it.
text_to_stream(pre, r, n) ==
  IF n = "raised"
  THEN [r EXCEPT !.sent = <<>>, !.raised = TRUE, !.success = FALSE,
                 !.reply = FALSE, !.gen = "none"]
  ELSE r

\* the events handled concurrently: the commands without argument and
\* messages with text content
AsyncTexts == { <<"x">>, <<ALIAS_MUTE>>, <<ALIAS_UNMUTE>> }

AsyncEvents ==
  [op : {"mute_cmd", "unmute_cmd"}, text : {<<>>}, at_bot : {FALSE}]
    \cup [op : {"message"}, text : AsyncTexts, at_bot : BOOLEAN]

FirstStage(op) == IF op = "message" THEN "alias" ELSE "cmd"

NextStage(pc) ==
  CASE pc = "alias" -> "at" [] pc = "at" -> "status" [] OTHER -> "done"

\* the result of stage pc of the event (op, m) run on the dictionary map
StageResult(op, pc, map, m) ==
  CASE pc = "cmd" /\ op = "mute_cmd" ->
         IF impl = "handler"
         THEN H_MuteMaiCommand_execute(map, cfg, now, m.stream, <<>>)
         ELSE C_MuteMaiCommand_execute(map, cfg, now, m.stream)
    [] pc = "cmd" /\ op = "unmute_cmd" ->
         IF impl = "handler"
         THEN H_UnmuteMaiCommand_execute(map, cfg, now, m.stream, "replied")
         ELSE C_UnmuteMaiCommand_execute(map, cfg, now, m.stream, "replied")
    [] pc = "alias" ->
         IF impl = "handler"
         THEN H_AliasHandler_handle(map, cfg, now, m, "replied")
         ELSE C_alias_check(map, cfg, now, m, "replied")
    [] pc = "at" ->
         IF impl = "handler"
         THEN H_AtUnmuteHandler_handle(map, cfg, now, m, "replied")
         ELSE C_at_check(map, cfg, now, m, "replied")
    [] pc = "status" ->
         IF impl = "handler"
         THEN H_MuteHandler_handle(map, cfg, now, m)
         ELSE C_status_check(map, cfg, now, m)

\* the configurations with every switch on
AsyncConfigs ==
  {c \in Configs : c.plugin_enabled /\ c.mute_enabled /\ c.at_unmute_enabled}

AsyncInit ==
  /\ impl \in Impls
  /\ now = 0
  /\ cfg \in AsyncConfigs
  /\ muted = EmptyMap
  /\ hist = NoHist
  /\ last = Idle
  /\ tasks = NoTasks

\* the host starts the coroutine of an event of stream s
Arrive ==
  \E s \in Streams, e \in AsyncEvents :
    /\ last = Idle
    /\ tasks[s] = NoTask
    /\ tasks' = [tasks EXCEPT ![s] =
                   [op |-> e.op,
                    m |-> [stream |-> s, sender |-> "master", text |-> e.text,
                           at_bot |-> e.at_bot],
                    pc |-> FirstStage(e.op), local |-> muted]]
    /\ UNCHANGED <<impl, now, cfg, muted, hist, last>>

\* the event loop resumes the coroutine of stream s, which runs its next
\* stage: storage get, the stage's code with its storage set, then the send
Resume ==
  \E s \in Streams, n \in SendOutcomes :
    /\ last = Idle
    /\ tasks[s] /= NoTask
    /\ LET k == tasks[s]
           got == storage_get(k.local, muted)
           r0 == StageResult(k.op, k.pc, got, k.m)
           r == text_to_stream(muted, r0, n)
           over == r.raised \/ r.intercepted \/ NextStage(k.pc) = "done"
       IN  /\ n = "raised" => r0.sent /= <<>>
           /\ muted' = r.map
           /\ last' = Event(k.op, k.m, <<>>, muted, r)
           /\ tasks' = [tasks EXCEPT ![s] =
                          IF over THEN NoTask
                          ELSE [k EXCEPT !.pc = NextStage(k.pc),
                                         !.local = r.map]]
    /\ UNCHANGED <<impl, now, cfg, hist>>

AsyncNext ==
  \/ Tick
  \/ Arrive
  \/ Resume
  \/ Return

AsyncSpec == AsyncInit /\ [][AsyncNext]_vars

(***************************************************************************)
(* _parse_duration on its own: the duration string is drawn at the start,  *)
(* and one step applies the parser to it.  The string is last.args, the    *)
(* value returned is last.r.dur.                                           *)
(***************************************************************************)
MaxTokens == 4

\* pieces the duration strings are put together from
DurationTokens ==
  { <<"0">>, <<"1">>, <<" ">>, <<"x">>,
    <<"m">>, <<"m", "i", "n">>, <<"fen", "zhong">>, <<"M">>,
    <<"h">>, <<"xiao", "shi">>, <<"H">>,
    <<"tian">> }

RECURSIVE Flatten(_)
Flatten(ts) == IF ts = <<>> THEN <<>> ELSE Head(ts) \o Flatten(Tail(ts))

\* the sequences of at most MaxTokens pieces
TokenLists == UNION { [1..n -> DurationTokens] : n \in 0..MaxTokens }

ParseInit ==
  /\ impl = "handler" /\ now = 0 /\ cfg = DefaultConfig
  /\ muted = EmptyMap /\ hist = NoHist /\ tasks = NoTasks
  /\ \E ts \in TokenLists :
       last = Event("duration_str", NoMessage, Flatten(ts), EmptyMap,
                    NoResult(EmptyMap))

ParseDuration ==
  /\ last.op = "duration_str"
  /\ last' = [last EXCEPT !.op = "parsed",
                          !.r = [@ EXCEPT !.dur = parse_duration(last.args)]]
  /\ UNCHANGED <<impl, now, cfg, muted, hist, tasks>>

ParseNext == ParseDuration

ParseSpec == ParseInit /\ [][ParseNext]_vars

(***************************************************************************)
(* Vocabulary of the properties.                                           *)
(***************************************************************************)
\* the stream of the event being handled, and whether it had a record that
\* was not expired when the event arrived
HadLiveRecord == last.stream \in DOMAIN last.pre /\ now < last.pre[last.stream]

IsMuteAlias == last.op = "message" /\ StartsWith(last.text, <<ALIAS_MUTE>>)

IsUnmuteAlias == last.op = "message" /\ StartsWith(last.text, <<ALIAS_UNMUTE>>)

IsMuteRequest == last.op = "mute_cmd" \/ IsMuteAlias

IsUnmuteRequest == last.op = "unmute_cmd" \/ IsUnmuteAlias

Refused == \E i \in 1..Len(last.r.sent) :
             last.r.sent[i] \in {"plugin_disabled", "mute_disabled"}

\* while no mute is in effect on a stream, its messages are not intercepted
NoMuteNoIntercept ==
  (last.op = "message" /\ hist[last.stream] = None) => ~last.r.intercepted

(***************************************************************************)
(* C1: mute window.  After a mute of stream S at time T with duration D    *)
(* that no unmute, @-unmute or plugin load has undone, a message on S      *)
(* whose mute status is checked at time T' is intercepted when T' < T + D  *)
(* and is not intercepted when T' >= T + D.                                *)
(***************************************************************************)
C1_MuteWindow ==
  (last.op = "message" /\ last.r.checked /\ hist[last.stream] /= None)
    => (last.r.intercepted <=> now < hist[last.stream])

\* a message checked exactly at T + D, found unmuted
C1_Witness ==
  /\ last.op = "message" /\ last.r.checked /\ ~last.r.wrote
  /\ hist[last.stream] = now
  /\ ~last.r.intercepted

(***************************************************************************)
(* C2: a mute request with duration D2 at time T2 on a stream that already *)
(* has a record leaves the stream's expiry at exactly T2 + D2, whatever    *)
(* the previous expiry was.                                                *)
(***************************************************************************)
C2_RemuteOverwrites ==
  (last.r.wrote /\ last.stream \in DOMAIN last.pre
     /\ ~last.r.at_unmuted /\ ~last.r.expired)
    => /\ last.stream \in DOMAIN muted
       /\ muted[last.stream] = now + last.r.dur

\* a re-mute that shortens the mute
C2_Witness ==
  /\ last.r.wrote /\ HadLiveRecord
  /\ last.stream \in DOMAIN muted
  /\ muted[last.stream] < last.pre[last.stream]

(***************************************************************************)
(* C3: with plugin.enabled and features.mute_enabled true, an unmute       *)
(* request (command, or message starting with the alias) on a stream with  *)
(* an unexpired record removes the record and reports success, and no      *)
(* message on that stream is intercepted until it is muted again.          *)
(***************************************************************************)
C3_UnmuteMuted ==
  /\ (IsUnmuteRequest /\ cfg.plugin_enabled /\ cfg.mute_enabled /\ HadLiveRecord)
       => /\ last.stream \notin DOMAIN muted
          /\ last.r.request = "unmute" /\ last.r.success
          /\ hist[last.stream] = None
  /\ NoMuteNoIntercept

\* an unmute alias that removed an unexpired record
C3_Witness ==
  /\ IsUnmuteAlias /\ cfg.plugin_enabled /\ cfg.mute_enabled /\ HadLiveRecord
  /\ last.stream \notin DOMAIN muted

(***************************************************************************)
(* C4: an unmute request on a stream with no record returns false and      *)
(* leaves the whole map unchanged.                                         *)
(***************************************************************************)
C4_UnmuteNoRecord ==
  (IsUnmuteRequest /\ last.r.request = "unmute"
     /\ last.stream \notin DOMAIN last.pre)
    => (~last.r.success /\ muted = last.pre)

(***************************************************************************)
(* C5, as stated: when features.at_unmute_enabled is true and stream S has *)
(* an unexpired record, a message on S that @-mentions the bot removes the *)
(* record.                                                                 *)
(***************************************************************************)
C5_AtUnmuteAsStated ==
  (last.op = "message" /\ last.at_bot /\ cfg.at_unmute_enabled /\ HadLiveRecord)
    => last.stream \notin DOMAIN muted

(***************************************************************************)
(* C5, amended: when plugin.enabled, features.mute_enabled and             *)
(* features.at_unmute_enabled are all true and stream S has an unexpired   *)
(* record, a message on S that @-mentions the bot (in the chatter version: *)
(* one with text content) removes the record and is not intercepted, and   *)
(* no message on S is intercepted until S is muted again.                  *)
(***************************************************************************)
C5_AtUnmute ==
  /\ (last.op = "message" /\ last.at_bot /\ HadLiveRecord
        /\ cfg.plugin_enabled /\ cfg.mute_enabled /\ cfg.at_unmute_enabled
        /\ (impl = "chatter" => last.text /= <<>>))
       => /\ last.stream \notin DOMAIN muted
          /\ ~last.r.intercepted
          /\ hist[last.stream] = None
  /\ NoMuteNoIntercept

\* an @-mention that removed an unexpired record
C5_Witness ==
  /\ last.op = "message" /\ last.at_bot /\ HadLiveRecord
  /\ cfg.plugin_enabled /\ cfg.mute_enabled /\ cfg.at_unmute_enabled
  /\ last.r.at_unmuted /\ last.text = <<"x">>
  /\ last.stream \notin DOMAIN muted

(***************************************************************************)
(* C6: after on_plugin_loaded the map is empty whatever it held before,    *)
(* and no message is intercepted until a new mute request.                 *)
(***************************************************************************)
C6_LoadClears ==
  /\ last.op = "load" => (muted = EmptyMap /\ hist = NoHist)
  /\ NoMuteNoIntercept

\* a load that found records of both streams, one of them unexpired
C6_Witness ==
  /\ last.op = "load" /\ DOMAIN last.pre = Streams
  /\ \E s \in Streams : now < last.pre[s]

(***************************************************************************)
(* C7: a mute or unmute request (command or alias) sent by a user who is   *)
(* not the Master never creates, overwrites or removes a record.           *)
(***************************************************************************)
C7_OnlyMaster ==
  ((IsMuteRequest \/ IsUnmuteRequest) /\ last.sender /= "master")
    => (~last.r.wrote /\ ~last.r.unmuted)

(***************************************************************************)
(* C8: when features.at_unmute_enabled is false, a message that @-mentions *)
(* the bot never removes the stream's record.                              *)
(***************************************************************************)
C8_AtUnmuteGate ==
  (last.op = "message" /\ last.at_bot /\ ~cfg.at_unmute_enabled)
    => ~last.r.at_unmuted

(***************************************************************************)
(* C9: when plugin.enabled or features.mute_enabled is false, every mute   *)
(* or unmute request (command or alias) sends a refusal message and leaves *)
(* the map unchanged.                                                      *)
(***************************************************************************)
C9_DisabledRefuses ==
  ((IsMuteRequest \/ IsUnmuteRequest)
     /\ (~cfg.plugin_enabled \/ ~cfg.mute_enabled))
    => (Refused /\ muted = last.pre)

(***************************************************************************)
(* C10: while plugin.enabled is false, no incoming message is intercepted  *)
(* and no incoming message changes the map.                                *)
(***************************************************************************)
C10_PluginDisabled ==
  (last.op = "message" /\ ~cfg.plugin_enabled)
    => (~last.r.intercepted /\ muted = last.pre)

(***************************************************************************)
(* Vocabulary of the duration argument.                                    *)
(***************************************************************************)
\* the duration argument the mute request of the event carries: the command's
\* arguments, or what follows the alias; <<>> when there is none
DurationArg ==
  IF last.op = "mute_cmd" THEN Strip(last.args)
  ELSE IF IsMuteAlias THEN Strip(DropPrefix(Strip(last.text), 1))
  ELSE <<>>

\* the text was sent to the stream during the event
Sent(text) == \E i \in 1..Len(last.r.sent) : last.r.sent[i] = text

AllUnits == MinuteUnits \cup HourUnits \cup DayUnits

\* some integer-plus-unit match of one of the kinds in units
HasUnitMatch(s, units) ==
  \E i \in 1..Len(s) : MatchesAt(LowerStr(s), i, units)

\* no record was created and no expiry was altered
NoRecordWritten ==
  \A s \in DOMAIN muted : s \in DOMAIN last.pre /\ muted[s] = last.pre[s]

(***************************************************************************)
(* C11: in the handler version (the one whose mute takes a duration), with *)
(* plugin.enabled and features.mute_enabled true, a mute request (command  *)
(* or alias) whose non-empty duration argument matches none of the unit    *)
(* patterns sends the parse error message, reports failure, creates no     *)
(* record and alters no expiry.                                            *)
(***************************************************************************)
C11_ParseFailureRejects ==
  (impl = "handler" /\ IsMuteRequest
     /\ cfg.plugin_enabled /\ cfg.mute_enabled
     /\ DurationArg /= <<>> /\ ~HasUnitMatch(DurationArg, AllUnits))
    => /\ Sent("parse_error") /\ ~Sent("mute_start")
       /\ last.r.request = "mute" /\ ~last.r.success
       /\ ~last.r.wrote
       /\ NoRecordWritten

\* a mute alias with an unparsable duration on a stream that is muted
C11_Witness ==
  /\ impl = "handler" /\ IsMuteAlias /\ HadLiveRecord
  /\ cfg.plugin_enabled /\ cfg.mute_enabled
  /\ DurationArg = <<"x">>
  /\ Sent("parse_error")
  /\ muted = last.pre

(***************************************************************************)
(* Vocabulary of the parser's properties.                                  *)
(***************************************************************************)
\* s is a run of digits (its first k characters) followed by exactly one
\* unit token of the kind units, in any case
IsNumberThenUnit(s, k, units) ==
  /\ k \in 1..(Len(s) - 1)
  /\ \A j \in 1..k : IsDigit(s[j])
  /\ LowerStr(SubSeq(s, k + 1, Len(s))) \in units

\* s is <digits> <unit of kind first> <digits> <unit of kind second>, the
\* second number being the characters j+1..k
IsTwoParts(s, j, k, first, second) ==
  /\ j \in 2..Len(s) /\ k \in (j + 1)..(Len(s) - 1)
  /\ \E i \in 1..(j - 1) :
       /\ \A n \in 1..i : IsDigit(s[n])
       /\ LowerStr(SubSeq(s, i + 1, j)) \in first
  /\ \A n \in (j + 1)..k : IsDigit(s[n])
  /\ LowerStr(SubSeq(s, k + 1, Len(s))) \in second

(***************************************************************************)
(* C12: for a string that is a non-negative integer n followed by exactly  *)
(* one unit token, _parse_duration returns n for a minute unit, 60*n for   *)
(* an hour unit and 1440*n for the day unit, whatever the case of the      *)
(* letters; a string without any integer-plus-unit match returns None, and *)
(* a string with one never does (a parsed 0 is not None).                  *)
(***************************************************************************)
C12_UnitConversion ==
  last.op = "parsed" =>
    LET s == last.args
        d == last.r.dur
    IN  /\ \A k \in 1..Len(s) :
             /\ IsNumberThenUnit(s, k, MinuteUnits) => d = IntOf(s, 1, k)
             /\ IsNumberThenUnit(s, k, HourUnits) => d = 60 * IntOf(s, 1, k)
             /\ IsNumberThenUnit(s, k, DayUnits) => d = 1440 * IntOf(s, 1, k)
        /\ ~HasUnitMatch(s, AllUnits) => d = None
        /\ HasUnitMatch(s, AllUnits) => (d /= None /\ d >= 0)

\* "10 days" parsed to 14400 minutes
C12_Witness ==
  /\ last.op = "parsed"
  /\ last.args = <<"1", "0", "tian">>
  /\ last.r.dur = 14400

(***************************************************************************)
(* C13: when a string has integer-plus-unit matches of more than one kind, *)
(* the kind decides, in the order minute, hour, day: the result is the     *)
(* magnitude of the first minute match if there is one, else 60 times that *)
(* of the first hour match; neither the position in the string nor a sum   *)
(* of the parts plays a role.  An hour or day part followed by a minute    *)
(* part yields the minute magnitude alone.                                 *)
(***************************************************************************)
C13_UnitPrecedence ==
  last.op = "parsed" =>
    LET s == last.args
        d == last.r.dur
        m == HasUnitMatch(s, MinuteUnits)
        h == HasUnitMatch(s, HourUnits)
        dd == HasUnitMatch(s, DayUnits)
    IN  /\ (m /\ (h \/ dd)) => d = re_search(LowerStr(s), MinuteUnits)
        /\ (~m /\ h /\ dd) => d = 60 * re_search(LowerStr(s), HourUnits)
        /\ \A j, k \in 1..Len(s) :
             IsTwoParts(s, j, k, HourUnits \cup DayUnits, MinuteUnits)
               => d = IntOf(s, j + 1, k)
        /\ \A j, k \in 1..Len(s) :
             IsTwoParts(s, j, k, DayUnits, HourUnits)
               => d = 60 * IntOf(s, j + 1, k)

\* "1h0m" parsed to 0 minutes, neither 60 nor 60 + 0
C13_Witness ==
  /\ last.op = "parsed"
  /\ last.args = <<"1", "h", "0", "m">>
  /\ last.r.dur = 0

(***************************************************************************)
(* C14: every record written by a mute request has an expiry strictly      *)
(* greater than the time of the write: no mute is applied with a zero or   *)
(* negative duration, whether it comes from a parsed argument or from      *)
(* defaults.default_mute_minutes.                                          *)
(***************************************************************************)
C14_PositiveDuration ==
  last.r.wrote => last.r.dur > 0

(***************************************************************************)
(* C15: once an unmute (command, alias or @-mention) has removed a record  *)
(* and reached the reply generation, every outcome of that step (a reply,  *)
(* no replyer, a reported failure, an exception) leaves the record removed *)
(* and lets no exception out; a command or alias still reports success.    *)
(***************************************************************************)
C15_ReplyIndependent ==
  last.r.gen \in ReplyOutcomes
    => /\ last.r.unmuted \/ last.r.at_unmuted
       /\ last.stream \in DOMAIN last.pre \/ last.r.wrote
       /\ last.stream \notin DOMAIN muted
       /\ ~last.r.raised
       /\ last.r.unmuted => (last.r.request = "unmute" /\ last.r.success)

\* an unmute whose reply generation raised an exception
C15_Witness ==
  /\ IsUnmuteRequest /\ HadLiveRecord
  /\ last.r.gen = "exception"
  /\ last.r.success
  /\ last.stream \notin DOMAIN muted

(***************************************************************************)
(* C16: an unmute request (command or alias) on a stream with no record    *)
(* sends the "not currently muted" message, which is not the unmute        *)
(* confirmation, and does not trigger reply generation.                    *)
(***************************************************************************)
C16_NoopUnmuteAnnounced ==
  (IsUnmuteRequest /\ cfg.plugin_enabled /\ cfg.mute_enabled
     /\ last.stream \notin DOMAIN last.pre)
    => (Sent("not_muted") /\ ~Sent("unmute_start") /\ ~last.r.reply)

\* the stream of the event had a record that was expired when the event
\* arrived
HadExpiredRecord == last.stream \in DOMAIN last.pre /\ last.pre[last.stream] <= now

\* no expired record of the event's stream is left in the map
NoExpiredRecordLeft == last.stream \in DOMAIN muted => muted[last.stream] > now

(***************************************************************************)
(* C17, as stated: whenever a message on stream S is processed with S's    *)
(* record present and expired, the record is gone when the processing      *)
(* finishes, for every message (with or without text, plugin enabled or    *)
(* disabled).                                                              *)
(***************************************************************************)
C17_LazyCleanupAsStated ==
  (last.op = "message" /\ HadExpiredRecord) => NoExpiredRecordLeft

(***************************************************************************)
(* C17, amended: when a message on stream S is processed with S's record   *)
(* present and expired, no expired record of S is left when the processing *)
(* finishes (it is removed, or replaced by the record of a mute alias the  *)
(* message carries), provided that, in the handler version, plugin.enabled *)
(* and features.mute_enabled are true, and, in the chatter version, the    *)
(* message has text content (there the switches play no role).             *)
(***************************************************************************)
C17_LazyCleanup ==
  (last.op = "message" /\ HadExpiredRecord
     /\ (impl = "handler" => (cfg.plugin_enabled /\ cfg.mute_enabled))
     /\ (impl = "chatter" => last.text /= <<>>))
    => /\ NoExpiredRecordLeft
       /\ ~last.r.wrote => /\ last.stream \notin DOMAIN muted
                            /\ (last.r.expired \/ last.r.unmuted)
                            /\ ~last.r.intercepted

\* the chatter, plugin disabled, removing an expired record
C17_Witness ==
  /\ impl = "chatter" /\ ~cfg.plugin_enabled
  /\ last.op = "message" /\ HadExpiredRecord
  /\ last.r.expired
  /\ last.stream \notin DOMAIN muted

(***************************************************************************)
(* C18: a message on stream S is intercepted only if, at the moment of the *)
(* check, the map holds a record of S with expires_at > now; a stream with *)
(* no record or with an expired record is never intercepted.               *)
(***************************************************************************)
C18_InterceptOnlyMuted ==
  /\ (last.op = "message" /\ last.r.intercepted)
       => /\ last.r.checked
          /\ last.stream \in DOMAIN muted
          /\ muted[last.stream] > now
          /\ HadLiveRecord \/ last.r.wrote
  /\ last.op /= "message" => ~last.r.intercepted

\* a message intercepted on a stream muted by an earlier request
C18_Witness ==
  /\ last.op = "message" /\ last.r.intercepted /\ ~last.r.wrote
  /\ HadLiveRecord
  /\ muted = last.pre

(***************************************************************************)
(* Vocabulary of the transitions of one stream's record.                   *)
(***************************************************************************)
\* the event is a mute (unmute) request on stream s: the command, or a
\* message that starts with the alias once surrounding space is dropped
MuteRequestOn(s) ==
  /\ last.stream = s
  /\ \/ last.op = "mute_cmd"
     \/ last.op = "message" /\ StartsWith(Strip(last.text), <<ALIAS_MUTE>>)

UnmuteRequestOn(s) ==
  /\ last.stream = s
  /\ \/ last.op = "unmute_cmd"
     \/ last.op = "message" /\ StartsWith(Strip(last.text), <<ALIAS_UNMUTE>>)

\* the event is a message on s that @-mentions the bot while s is muted
AtMentionOn(s) ==
  /\ last.stream = s /\ last.op = "message" /\ last.at_bot
  /\ HadLiveRecord \/ last.r.wrote

\* the event is a message on s whose expiry check found the record expired
ExpiryFoundOn(s) ==
  /\ last.stream = s /\ last.op = "message" /\ last.r.expired

RecordWritten(s) ==
  s \in DOMAIN muted /\ (s \in DOMAIN last.pre => muted[s] /= last.pre[s])

RecordRemoved(s) == s \in DOMAIN last.pre /\ s \notin DOMAIN muted

(***************************************************************************)
(* C19: a record of stream S is created or overwritten only by a mute      *)
(* request on S, and removed only by an explicit unmute on S, by an        *)
(* @-mention on S while the record is unexpired and at-unmute is enabled,  *)
(* by an expiry check on S that finds now >= expires_at, or by plugin      *)
(* load; an ordinary message (no alias, no @-mention) on a stream whose    *)
(* record is unexpired leaves the map unchanged.                           *)
(***************************************************************************)
C19_ClosedTransitions ==
  /\ \A s \in Streams :
       /\ (last /= Idle /\ RecordWritten(s)) => MuteRequestOn(s)
       /\ (last /= Idle /\ RecordRemoved(s)) =>
            \/ last.op = "load"
            \/ UnmuteRequestOn(s)
            \/ AtMentionOn(s) /\ cfg.at_unmute_enabled
            \/ ExpiryFoundOn(s)
  /\ (last.op = "message" /\ ~last.at_bot /\ HadLiveRecord
        /\ ~MuteRequestOn(last.stream) /\ ~UnmuteRequestOn(last.stream))
       => muted = last.pre

(***************************************************************************)
(* C20: a mute carried out without a duration argument (the bare command   *)
(* or the bare alias) writes the expiry now + defaults.default_mute_minutes*)
(* (10 when the setting is absent); in the chatter version every mute,     *)
(* the alias followed by extra text included, uses that default.           *)
(***************************************************************************)
ConfiguredDefault ==
  IF cfg.default_mute_minutes = Absent THEN 10 ELSE cfg.default_mute_minutes

BareMute ==
  \/ last.op = "mute_cmd" /\ last.args = <<>>
  \/ last.op = "message" /\ Strip(last.text) = <<ALIAS_MUTE>>

C20_DefaultDuration ==
  (/\ last.r.wrote
   /\ BareMute \/ (impl = "chatter" /\ MuteRequestOn(last.stream)))
    => /\ last.r.dur = ConfiguredDefault
       /\ hist[last.stream] = now + ConfiguredDefault
            \/ last.r.at_unmuted \/ last.r.unmuted
       /\ last.stream \in DOMAIN muted
            => muted[last.stream] = now + ConfiguredDefault

\* the chatter's alias followed by a duration still mutes for the default
C20_Witness ==
  /\ impl = "chatter" /\ last.op = "message"
  /\ last.text = <<ALIAS_MUTE, "1", "m">>
  /\ cfg.default_mute_minutes = Absent
  /\ last.r.wrote
  /\ last.stream \in DOMAIN muted /\ muted[last.stream] = now + 10

(***************************************************************************)
(* Vocabulary of the restoration of speech.                                *)
(***************************************************************************)
\* stream s has a record whose expiry the clock reaches
Expirable(s) == s \in DOMAIN muted /\ muted[s] <= MaxTime

\* a message on s is being handled that reaches the mute-status check: in
\* the handler version the plugin and the mute feature are enabled, in the
\* chatter version the message has text content
CheckedMessageOn(s) ==
  /\ last.op = "message" /\ last.stream = s
  /\ impl = "handler" => (cfg.plugin_enabled /\ cfg.mute_enabled)
  /\ impl = "chatter" => last.text /= <<>>

\* a message on s is being handled
MessageHandledOn(s) == last.op = "message" /\ last.stream = s

\* speech is restored on s: a message on s was handled, s has no record and
\* the message was not intercepted
Restored(s) ==
  /\ last.op = "message" /\ last.stream = s
  /\ s \notin DOMAIN muted
  /\ ~last.r.intercepted

\* a record disappears only while an event of its stream, or a plugin load,
\* is handled
NoTimer ==
  \A s \in Streams :
    (last /= Idle /\ RecordRemoved(s)) => (last.op = "load" \/ last.stream = s)

(***************************************************************************)
(* C21, as stated: if stream S is muted and no further mute request is     *)
(* made on S, then, time advancing and messages arriving on S for ever, a  *)
(* state is reached in which S has no record.                              *)
(***************************************************************************)
C21_RestoredAsStated ==
  \A s \in Streams :
    []<>MessageHandledOn(s)
      => (Expirable(s) ~> (s \notin DOMAIN muted \/ MuteRequestOn(s)))

(***************************************************************************)
(* C21, amended: if stream S is muted and no further mute request is made  *)
(* on S, then, time advancing and messages that reach the mute-status      *)
(* check (handler version: plugin.enabled and features.mute_enabled true;  *)
(* chatter version: a message with text content) arriving on S for ever,   *)
(* a state is reached in which a message on S has been handled, S has no   *)
(* record and the message was not intercepted; and no record is removed    *)
(* except while an event of its own stream, or a plugin load, is handled   *)
(* (there is no timer).                                                    *)
(***************************************************************************)
C21_EventuallyRestored ==
  /\ \A s \in Streams :
       []<>CheckedMessageOn(s)
         => (Expirable(s) ~> (Restored(s) \/ MuteRequestOn(s)))
  /\ []NoTimer

\* a mute made at time 0 has run out at the horizon and the next message
\* with text on the stream is let through, the record being removed
C21_Witness ==
  /\ now = MaxTime
  /\ last.op = "message" /\ last.text = <<"x">> /\ ~last.at_bot
  /\ last.stream \in DOMAIN last.pre /\ last.pre[last.stream] = MaxTime
  /\ Restored(last.stream)

(***************************************************************************)
(* C22: an unmute request reports success, sends the 'resumed speaking'    *)
(* confirmation and triggers the reply generation only if the stream had a *)
(* record with expires_at > now when the request was made; on a stream     *)
(* whose record is present but expired the unmute is reported as           *)
(* not-muted.                                                              *)
(***************************************************************************)
C22_UnmuteOnlyIfMuted ==
  last.r.request = "unmute"
    => /\ (last.r.success \/ Sent("unmute_start") \/ last.r.unmuted)
            => HadLiveRecord
       /\ (HadExpiredRecord /\ ~Refused)
            => (~last.r.success /\ ~Sent("unmute_start") /\ ~last.r.unmuted)

(***************************************************************************)
(* C23: the alias check and the @-mention check run before the mute-status *)
(* check, so a message that unmutes a muted stream (unmute alias, or       *)
(* @-mention of the bot with at-unmute enabled) is itself not intercepted: *)
(* the status check runs after the removal and finds no record.            *)
(***************************************************************************)
Enabled == cfg.plugin_enabled /\ cfg.mute_enabled

C23_UnmuteBeforeStatusCheck ==
  (last.op = "message" /\ HadLiveRecord)
    => /\ (last.r.unmuted \/ last.r.at_unmuted)
            => /\ last.r.checked /\ ~last.r.intercepted
               /\ last.stream \notin DOMAIN muted
       /\ (Enabled /\ StartsWith(last.text, <<ALIAS_UNMUTE>>))
            => (last.r.unmuted /\ ~last.r.intercepted)
       /\ (Enabled /\ cfg.at_unmute_enabled /\ last.at_bot /\ last.text /= <<>>)
            => ((last.r.at_unmuted \/ last.r.unmuted) /\ ~last.r.intercepted)

\* an unmute alias on a muted stream: the record is removed, the status
\* check runs and lets the message through
C23_Witness ==
  /\ last.op = "message" /\ HadLiveRecord
  /\ last.text = <<ALIAS_UNMUTE>> /\ ~last.at_bot
  /\ last.r.unmuted /\ last.r.checked /\ ~last.r.intercepted

(***************************************************************************)
(* C24: handling an event of stream S (mute, unmute, alias, @-mention,     *)
(* ordinary message, expiry cleanup) leaves the presence and the expiry of *)
(* every other stream's record unchanged; an expired record of another     *)
(* stream is not cleaned up by traffic on S.                               *)
(***************************************************************************)
SameRecord(s) ==
  /\ s \in DOMAIN muted <=> s \in DOMAIN last.pre
  /\ s \in DOMAIN muted => muted[s] = last.pre[s]

C24_CrossStreamIsolation ==
  last.op \in {"mute_cmd", "unmute_cmd", "message"}
    => \A s \in Streams \ {last.stream} : SameRecord(s)

\* a message on S has its own expired record cleaned up while the expired
\* record of the other stream stays
C24_Witness ==
  /\ last.op = "message" /\ last.r.expired
  /\ last.stream \notin DOMAIN muted
  /\ \E s \in Streams \ {last.stream} :
       s \in DOMAIN muted /\ muted[s] <= now /\ SameRecord(s)

(***************************************************************************)
(* C25: when handlers of different events interleave at their awaits, no   *)
(* stage writes back a stale copy of the map: every stage leaves the       *)
(* record of every other stream as the storage held it when the stage      *)
(* began, so a record created or removed by one event is not undone by an  *)
(* event of another stream that runs concurrently.                         *)
(***************************************************************************)
C25_NoLostUpdate ==
  last /= Idle => \A s \in Streams \ {last.stream} : SameRecord(s)

\* a stage of one event has changed the map while the event of another
\* stream is suspended at an await, holding the dictionary it read before
C25_Witness ==
  /\ last /= Idle /\ muted /= last.pre
  /\ \E s \in Streams \ {last.stream} :
       /\ tasks[s] /= NoTask
       /\ tasks[s].local = last.pre
       /\ tasks[s].pc \in {"at", "status"}

(***************************************************************************)
(* C26: once a message that starts with a mute alias has been handled      *)
(* completely (all handlers, or the whole execute) with the plugin and the *)
(* mute feature enabled and a positive duration, the stream has a record   *)
(* with expiry = request time + duration, whatever else the message        *)
(* contains (an @-mention of the bot, for example).                        *)
(***************************************************************************)
C26_MuteSticks ==
  (/\ last.op = "message" /\ StartsWith(Strip(last.text), <<ALIAS_MUTE>>)
   /\ Enabled
   /\ last.r.wrote /\ last.r.dur > 0)
    => /\ last.stream \in DOMAIN muted
       /\ muted[last.stream] = now + last.r.dur

(***************************************************************************)
(* C27: in the chatter version, every incoming message on a stream whose   *)
(* record is unexpired and which does not itself unmute the stream is      *)
(* blocked (block_follow_up_processing = True), a message without text     *)
(* content (an image) included.                                            *)
(***************************************************************************)
C27_ChatterBlocksAll ==
  (/\ impl = "chatter" /\ last.op = "message"
   /\ HadLiveRecord
   /\ ~last.r.unmuted /\ ~last.r.at_unmuted)
    => last.r.intercepted

(***************************************************************************)
(* C28: with the default configuration, for every sequence of mute         *)
(* commands, unmute commands, mute-alias messages without duration,        *)
(* unmute-alias messages (with or without surrounding whitespace),         *)
(* @-mention messages, ordinary text messages, time advances and plugin    *)
(* loads, the two versions hold the same map after each event and make the *)
(* same intercept decision for each message.  Both start from the empty    *)
(* map and a plugin load clears both, so they agree along a sequence as    *)
(* long as, from every map they share, each event takes both to the same   *)
(* map with the same decision.                                             *)
(***************************************************************************)
\* the message of the event being handled
LastMessage ==
  [stream |-> last.stream, sender |-> last.sender, text |-> last.text,
   at_bot |-> last.at_bot]

\* what version i makes of the event being handled, from the map the event
\* found
ResultOf(i) ==
  CASE last.op = "mute_cmd" ->
         IF i = "handler"
         THEN H_MuteMaiCommand_execute(last.pre, cfg, now, last.stream, last.args)
         ELSE C_MuteMaiCommand_execute(last.pre, cfg, now, last.stream)
    [] last.op = "unmute_cmd" ->
         IF i = "handler"
         THEN H_UnmuteMaiCommand_execute(last.pre, cfg, now, last.stream, "replied")
         ELSE C_UnmuteMaiCommand_execute(last.pre, cfg, now, last.stream, "replied")
    [] last.op = "message" ->
         IF i = "handler"
         THEN H_handlers(last.pre, cfg, now, LastMessage, "replied")
         ELSE MuteControlChatter_execute(last.pre, cfg, now, LastMessage, "replied")

\* the events the claim lists
ListedEvent ==
  \/ last.op \in {"mute_cmd", "unmute_cmd"} /\ last.args = <<>>
  \/ /\ last.op = "message"
     /\ last.text \in { <<"x">>, <<ALIAS_MUTE>>, <<ALIAS_UNMUTE>>,
                        <<" ", ALIAS_UNMUTE>> }

C28_ImplementationsAgree ==
  (cfg = DefaultConfig /\ ListedEvent)
    => /\ ResultOf("handler").map = ResultOf("chatter").map
       /\ ResultOf("handler").intercepted = ResultOf("chatter").intercepted

(***************************************************************************)
(* C29: when a message that starts with a mute alias creates a record with *)
(* a positive duration and does not @-mention the bot, the mute-status     *)
(* check that runs later for the same message sees the new record and      *)
(* intercepts the message, although the alias step itself does not         *)
(* intercept.                                                              *)
(***************************************************************************)
C29_MutingMessageSilenced ==
  (/\ last.op = "message" /\ StartsWith(Strip(last.text), <<ALIAS_MUTE>>)
   /\ last.r.wrote /\ last.r.dur > 0
   /\ ~last.at_bot)
    => /\ last.r.checked /\ last.r.intercepted
       /\ last.stream \in DOMAIN muted
       /\ muted[last.stream] = now + last.r.dur

\* a mute alias on a stream that had no record: the record is written and
\* the message that asked for it is intercepted
C29_Witness ==
  /\ last.op = "message" /\ last.text = <<ALIAS_MUTE>> /\ ~last.at_bot
  /\ last.stream \notin DOMAIN last.pre
  /\ last.r.wrote /\ last.r.dur > 0
  /\ last.r.intercepted

(***************************************************************************)
(* C30: in every mute, unmute and @-unmute path the storage set comes      *)
(* before the confirmation is sent.  So when the send raises, the map      *)
(* already holds the requested change and keeps it; and a confirmation is  *)
(* sent only for a change that was written.  Checked on the stages of the  *)
(* interleaved handling, each with a send that arrives or raises.          *)
(***************************************************************************)
HadRecord == last.stream \in DOMAIN last.pre

RecordGone == last.stream \notin DOMAIN muted

DefaultRecord ==
  /\ last.stream \in DOMAIN muted
  /\ muted[last.stream] = now + ConfiguredDefault

C30_WriteBeforeNotify ==
  /\ (last.r.raised /\ last.r.request = "mute" /\ Enabled) => DefaultRecord
  /\ (last.r.raised /\ last.r.request = "unmute" /\ Enabled /\ HadRecord)
       => RecordGone
  /\ (last.r.raised /\ last.r.request = "none") => (HadLiveRecord /\ RecordGone)
  /\ Sent("mute_start") => DefaultRecord
  /\ Sent("unmute_start") => (HadRecord /\ RecordGone)
  /\ Sent("at_unmute") => (HadLiveRecord /\ RecordGone)

\* the send of the mute confirmation raised: the record is in the map
C30_Witness ==
  /\ last.r.raised /\ last.r.request = "mute"
  /\ ~HadRecord
  /\ DefaultRecord

====
